---- MODULE Spec2Model ----
(***************************************************************************)
(* Model of the incremental-patch update engine of DeadReckoningLauncher   *)
(* (src/src/updater.rs): catalog fetch and parsing, filtering by semantic  *)
(* version, and the download / install loop of Updater::update.            *)
(*                                                                         *)
(* Strings are sequences of one-character strings, so that trimming,       *)
(* prefix/suffix tests, slicing, Version::parse and Version::to_string are *)
(* computed rather than assumed.                                           *)
(***************************************************************************)
EXTENDS Integers, Sequences, FiniteSets, TLC

(***************************************************************************)
(* Bounds of the model.                                                    *)
(***************************************************************************)
\* longest catalog body (in lines) the server answers a full update run
\* with, besides the scenario catalog
MaxLines == 2

\* longest catalog body (in lines) of the runs that end after the filter
MaxCatalogLines == 3

\* the update runs the user starts while the launcher is open
MaxClicks == 2

(***************************************************************************)
(* Option and Result values.                                               *)
(***************************************************************************)
None == <<>>

Some(x) == <<x>>

is_some(o) == o # None

unwrap(o) == o[1]

Ok(x) == [ok |-> TRUE, val |-> x]

Err(e) == [ok |-> FALSE, err |-> e]

(***************************************************************************)
(* Characters.                                                             *)
(***************************************************************************)
Digits == {"0", "1", "2", "3", "4", "5", "6", "7", "8", "9"}

DigitVal ==
  ("0" :> 0) @@ ("1" :> 1) @@ ("2" :> 2) @@ ("3" :> 3) @@ ("4" :> 4) @@
  ("5" :> 5) @@ ("6" :> 6) @@ ("7" :> 7) @@ ("8" :> 8) @@ ("9" :> 9)

DigitChar == <<"0", "1", "2", "3", "4", "5", "6", "7", "8", "9">>

\* the characters a pre-release identifier is made of, in ASCII order
AsciiOrder ==
  <<"-", "0", "1", "2", "3", "4", "5", "6", "7", "8", "9",
    "A", "B", "C", "D", "E", "F", "G", "H", "I", "J", "K", "L", "M",
    "N", "O", "P", "Q", "R", "S", "T", "U", "V", "W", "X", "Y", "Z",
    "a", "b", "c", "d", "e", "f", "g", "h", "i", "j", "k", "l", "m",
    "n", "o", "p", "q", "r", "s", "t", "u", "v", "w", "x", "y", "z">>

IdentChars == {AsciiOrder[i] : i \in 1..Len(AsciiOrder)}

Ascii(c) == CHOOSE i \in 1..Len(AsciiOrder) : AsciiOrder[i] = c

WhiteSpace == {" ", "\t", "\r"}

(***************************************************************************)
(* str helpers used by check_for_updates.                                  *)
(***************************************************************************)
RECURSIVE TrimStart(_)
TrimStart(s) ==
  IF s # <<>> /\ Head(s) \in WhiteSpace THEN TrimStart(Tail(s)) ELSE s

RECURSIVE TrimEnd(_)
TrimEnd(s) ==
  IF s # <<>> /\ s[Len(s)] \in WhiteSpace
  THEN TrimEnd(SubSeq(s, 1, Len(s) - 1))
  ELSE s

\* str::trim
trim(s) == TrimEnd(TrimStart(s))

\* str::starts_with
starts_with(s, p) == Len(s) >= Len(p) /\ SubSeq(s, 1, Len(p)) = p

\* str::ends_with
ends_with(s, p) ==
  Len(s) >= Len(p) /\ SubSeq(s, Len(s) - Len(p) + 1, Len(s)) = p

\* the first index >= i of s that holds the character c, Len(s) + 1 when
\* there is none
RECURSIVE IndexOf(_, _, _)
IndexOf(s, c, i) ==
  IF i > Len(s) \/ s[i] = c THEN i ELSE IndexOf(s, c, i + 1)

\* the pieces of s between occurrences of the separator sep
RECURSIVE Split(_, _)
Split(s, sep) ==
  LET i == IndexOf(s, sep, 1)
  IN  IF i > Len(s) THEN <<s>>
      ELSE <<SubSeq(s, 1, i - 1)>> \o Split(SubSeq(s, i + 1, Len(s)), sep)

\* Path::new(line).file_name(): the last component of the path, None when
\* there is none or when the path ends in ".."
file_name(line) ==
  LET comps == SelectSeq(Split(line, "/"),
                         LAMBDA c : c # <<>> /\ c # <<".">>)
  IN  IF comps = <<>> \/ comps[Len(comps)] = <<".", ".">>
      THEN None
      ELSE Some(comps[Len(comps)])

(***************************************************************************)
(* semver::Version: parse, to_string and the precedence order.             *)
(***************************************************************************)
\* the first index >= i of s whose character is not in S
RECURSIVE SpanEnd(_, _, _)
SpanEnd(s, i, S) ==
  IF i <= Len(s) /\ s[i] \in S THEN SpanEnd(s, i + 1, S) ELSE i

RECURSIVE DecVal(_)
DecVal(s) ==
  IF s = <<>> THEN 0
  ELSE 10 * DecVal(SubSeq(s, 1, Len(s) - 1)) + DigitVal[s[Len(s)]]

IsNumeric(s) == s # <<>> /\ \A i \in 1..Len(s) : s[i] \in Digits

\* a numeric identifier: digits without a leading zero
NumericOk(s) == IsNumeric(s) /\ (Len(s) > 1 => s[1] # "0")

\* a pre-release tag: dot-separated, non-empty identifiers of [0-9A-Za-z-],
\* the numeric ones without leading zeros
PreOk(p) ==
  \A k \in 1..Len(Split(p, ".")) :
     LET id == Split(p, ".")[k]
     IN  /\ id # <<>>
         /\ \A i \in 1..Len(id) : id[i] \in IdentChars
         /\ (IsNumeric(id) => NumericOk(id))

\* Version::parse: MAJOR.MINOR.PATCH[-PRE]; Err for everything else
VersionParse(s) ==
  LET j1 == SpanEnd(s, 1, Digits)
      j2 == SpanEnd(s, j1 + 1, Digits)
      j3 == SpanEnd(s, j2 + 1, Digits)
      major == SubSeq(s, 1, j1 - 1)
      minor == SubSeq(s, j1 + 1, j2 - 1)
      patch == SubSeq(s, j2 + 1, j3 - 1)
      pre   == SubSeq(s, j3 + 1, Len(s))
  IN  IF /\ NumericOk(major)
         /\ j1 <= Len(s) /\ s[j1] = "."
         /\ NumericOk(minor)
         /\ j2 <= Len(s) /\ s[j2] = "."
         /\ NumericOk(patch)
         /\ \/ j3 = Len(s) + 1
            \/ j3 <= Len(s) /\ s[j3] = "-" /\ PreOk(pre)
      THEN Ok([major |-> DecVal(major), minor |-> DecVal(minor),
               patch |-> DecVal(patch),
               pre |-> IF j3 > Len(s) THEN <<>> ELSE pre])
      ELSE Err("VersionParseError")

RECURSIVE NatStr(_)
NatStr(n) ==
  IF n < 10 THEN <<DigitChar[n + 1]>>
  ELSE NatStr(n \div 10) \o <<DigitChar[(n % 10) + 1]>>

\* Version::to_string
VersionToString(v) ==
  NatStr(v.major) \o <<".">> \o NatStr(v.minor) \o <<".">> \o NatStr(v.patch)
    \o (IF v.pre = <<>> THEN <<>> ELSE <<"-">> \o v.pre)

CmpInt(a, b) == IF a < b THEN -1 ELSE IF a > b THEN 1 ELSE 0

\* byte-wise comparison of two identifiers
RECURSIVE CmpStr(_, _)
CmpStr(a, b) ==
  IF a = <<>> /\ b = <<>> THEN 0
  ELSE IF a = <<>> THEN -1
  ELSE IF b = <<>> THEN 1
  ELSE IF Head(a) # Head(b) THEN CmpInt(Ascii(Head(a)), Ascii(Head(b)))
  ELSE CmpStr(Tail(a), Tail(b))

\* numeric identifiers compare by value and sort before alphanumeric ones
CmpIdent(a, b) ==
  IF IsNumeric(a) /\ IsNumeric(b) THEN CmpInt(DecVal(a), DecVal(b))
  ELSE IF IsNumeric(a) THEN -1
  ELSE IF IsNumeric(b) THEN 1
  ELSE CmpStr(a, b)

RECURSIVE CmpIdents(_, _)
CmpIdents(a, b) ==
  IF a = <<>> /\ b = <<>> THEN 0
  ELSE IF a = <<>> THEN -1
  ELSE IF b = <<>> THEN 1
  ELSE IF CmpIdent(Head(a), Head(b)) # 0 THEN CmpIdent(Head(a), Head(b))
  ELSE CmpIdents(Tail(a), Tail(b))

\* a version without a pre-release tag is above every tagged one
CmpPre(p, q) ==
  IF p = <<>> /\ q = <<>> THEN 0
  ELSE IF p = <<>> THEN 1
  ELSE IF q = <<>> THEN -1
  ELSE CmpIdents(Split(p, "."), Split(q, "."))

\* Ord for Version
VersionCmp(a, b) ==
  IF a.major # b.major THEN CmpInt(a.major, b.major)
  ELSE IF a.minor # b.minor THEN CmpInt(a.minor, b.minor)
  ELSE IF a.patch # b.patch THEN CmpInt(a.patch, b.patch)
  ELSE CmpPre(a.pre, b.pre)

(***************************************************************************)
(* Catalog parsing (Updater::check_for_updates).                           *)
(***************************************************************************)
PatchPrefix == <<"p", "a", "t", "c", "h", "-">>

ZipSuffix == <<".", "z", "i", "p">>

\* ParseLine without the test for a comment line
ParseLineNoComment(raw) ==
  LET line == trim(raw)
  IN  IF line = <<>> \/ file_name(line) = None THEN <<>>
      ELSE LET file_name_str == unwrap(file_name(line))
           IN  IF starts_with(file_name_str, PatchPrefix)
                  /\ ends_with(file_name_str, ZipSuffix)
                  /\ VersionParse(SubSeq(file_name_str, 7,
                                         Len(file_name_str) - 4)).ok
               THEN <<[version |->
                         VersionParse(SubSeq(file_name_str, 7,
                                             Len(file_name_str) - 4)).val,
                       download_url |-> line]>>
               ELSE <<>>

\* the PatchInfo of one line of the response body: a sequence with one
\* entry, or the empty sequence when the line is skipped
ParseLine(raw) ==
  LET line == trim(raw)
  IN  IF line = <<>> \/ starts_with(line, <<"#">>) THEN <<>>
      ELSE IF file_name(line) = None THEN <<>>
      ELSE LET file_name_str == unwrap(file_name(line))
           IN  IF starts_with(file_name_str, PatchPrefix)
                  /\ ends_with(file_name_str, ZipSuffix)
               THEN LET version_str ==
                          SubSeq(file_name_str, 7, Len(file_name_str) - 4)
                        parsed == VersionParse(version_str)
                    IN  IF parsed.ok
                        THEN <<[version |-> parsed.val, download_url |-> line]>>
                        ELSE <<>>
               ELSE <<>>

RECURSIVE ParseCatalog(_)
ParseCatalog(lines) ==
  IF lines = <<>> THEN <<>>
  ELSE ParseLine(Head(lines)) \o ParseCatalog(Tail(lines))

\* InsertSorted with the comparison reversed
RECURSIVE InsertSortedDescending(_, _)
InsertSortedDescending(sorted, p) ==
  IF sorted = <<>> THEN <<p>>
  ELSE IF VersionCmp(p.version, Head(sorted).version) = 1
       THEN <<p>> \o sorted
       ELSE <<Head(sorted)>> \o InsertSortedDescending(Tail(sorted), p)

\* position of p in an ascending sequence: behind every entry that is not
\* greater (sort_by is a stable sort)
RECURSIVE InsertSorted(_, _)
InsertSorted(sorted, p) ==
  IF sorted = <<>> THEN <<p>>
  ELSE IF VersionCmp(p.version, Head(sorted).version) = -1
       THEN <<p>> \o sorted
       ELSE <<Head(sorted)>> \o InsertSorted(Tail(sorted), p)

\* sort_by(|a, b| a.version.cmp(&b.version))
RECURSIVE sort_by_version(_)
sort_by_version(s) ==
  IF s = <<>> THEN <<>>
  ELSE InsertSorted(sort_by_version(SubSeq(s, 1, Len(s) - 1)), s[Len(s)])

(***************************************************************************)
(* Inputs: configurations and server answers.                              *)
(***************************************************************************)
V_1_0_0 == <<"1", ".", "0", ".", "0">>

V_2_0_0 == <<"2", ".", "0", ".", "0">>

V_1_0 == <<"1", ".", "0">>

UpdateUrl == <<"h", "/", "l">>

\* AppConfig as the updater reads it: the installed version and the endpoint
Configs ==
  [version : {None, Some(V_1_0_0), Some(V_2_0_0), Some(V_1_0)},
   update_url : {None, Some(UpdateUrl)}]

L_1_0_1 == PatchPrefix \o <<"1", ".", "0", ".", "1">> \o ZipSuffix

L_0_9_0 == PatchPrefix \o <<"0", ".", "9", ".", "0">> \o ZipSuffix

L_1_0_0 == PatchPrefix \o V_1_0_0 \o ZipSuffix

L_NotAPatch ==
  <<"n", "o", "t", "-", "a", "-", "p", "a", "t", "c", "h", ".", "t", "x", "t">>

L_Comment == <<"#", " ", "c", "o", "m", "m", "e", "n", "t">>

L_Blank == <<" ", " ">>

\* a URL with a directory part, surrounded by white space
L_Url_1_1_0 ==
  <<" ", "u", "/">> \o PatchPrefix \o <<"1", ".", "1", ".", "0">>
    \o ZipSuffix \o <<"\r">>

\* a pre-release of 2.0.0
L_2_0_0_rc1 ==
  PatchPrefix \o V_2_0_0 \o <<"-", "r", "c", "1">> \o ZipSuffix

\* a comment line that ends in a well-formed patch name
L_Comment_3_0_0 ==
  <<"#", "u", "/">> \o PatchPrefix \o <<"3", ".", "0", ".", "0">> \o ZipSuffix

L_BadVersion == PatchPrefix \o <<"1", ".", "x">> \o ZipSuffix

L_LeadingZero == PatchPrefix \o <<"0", "1", ".", "0", ".", "0">> \o ZipSuffix

L_WrongPrefix == <<"x">> \o PatchPrefix \o <<"1", ".", "2", ".", "0">> \o ZipSuffix

L_WrongSuffix ==
  PatchPrefix \o <<"1", ".", "2", ".", "0">> \o <<".", "t", "g", "z">>

CatalogLines ==
  {L_1_0_1, L_0_9_0, L_1_0_0, L_NotAPatch, L_Comment, L_Blank, L_Url_1_1_0,
   L_2_0_0_rc1, L_Comment_3_0_0, L_BadVersion, L_LeadingZero, L_WrongPrefix,
   L_WrongSuffix}

\* the catalog of the first scenario of the testable properties
ScenarioCatalog == <<L_1_0_1, L_0_9_0, L_NotAPatch, L_Comment>>

\* the lines of the catalogs a full update run is answered with
PatchLines == {L_1_0_1, L_Url_1_1_0, L_1_0_0}

\* the bodies the server answers the catalog request with, as the lines
\* content.lines() yields
Catalogs ==
  {ScenarioCatalog} \cup UNION {[1..n -> PatchLines] : n \in 0..MaxLines}

AllCatalogs ==
  {ScenarioCatalog} \cup UNION {[1..n -> CatalogLines] : n \in 0..MaxCatalogLines}

ResponsesOf(catalogs) ==
  {[kind |-> "send_error", lines |-> <<>>],
   [kind |-> "status_error", lines |-> <<>>],
   [kind |-> "text_error", lines |-> <<>>]}
  \cup {[kind |-> "ok", lines |-> c] : c \in catalogs}

CatalogResponses == ResponsesOf(Catalogs)

AllCatalogResponses == ResponsesOf(AllCatalogs)

\* check_for_updates falling back to an empty URL when none is configured
check_for_updates_default_url(cfg, resp) ==
  [requests |-> <<IF cfg.update_url = None THEN <<>>
                  ELSE unwrap(cfg.update_url)>>,
   result |->
     IF resp.kind # "ok" THEN Err("NetworkError")
     ELSE IF sort_by_version(ParseCatalog(resp.lines)) = <<>>
          THEN Err("NoUpdatesAvailable")
          ELSE Ok(sort_by_version(ParseCatalog(resp.lines)))]

\* check_for_updates without the sort of the parsed entries
check_for_updates_unsorted(cfg, resp) ==
  IF cfg.update_url = None
  THEN [result |-> Err("NoUpdateUrlConfigured"), requests |-> <<>>]
  ELSE [requests |-> <<unwrap(cfg.update_url)>>,
        result |->
          IF resp.kind # "ok" THEN Err("NetworkError")
          ELSE IF ParseCatalog(resp.lines) = <<>>
               THEN Err("NoUpdatesAvailable")
               ELSE Ok(ParseCatalog(resp.lines))]

\* Updater::check_for_updates: its result and the requests it issues
check_for_updates(cfg, resp) ==
  IF cfg.update_url = None
  THEN [result |-> Err("NoUpdateUrlConfigured"), requests |-> <<>>]
  ELSE [requests |-> <<unwrap(cfg.update_url)>>,
        result |->
          IF resp.kind # "ok" THEN Err("NetworkError")
          ELSE LET available_patches ==
                     sort_by_version(ParseCatalog(resp.lines))
               IN  IF available_patches = <<>>
                   THEN Err("NoUpdatesAvailable")
                   ELSE Ok(available_patches)]

(***************************************************************************)
(* The directory tree. A location is a path resolved against the working  *)
(* directory (the extraction root): "up" counts the parent directories it  *)
(* climbs above the root, "abs" marks a path anchored at the file system   *)
(* root.  The tree maps the locations that exist to a node.                *)
(***************************************************************************)
RootLoc == [abs |-> FALSE, up |-> 0, path |-> <<>>]

Inside(loc) == ~loc.abs /\ loc.up = 0

DirNode == [dir |-> TRUE, data |-> "-"]

FileNode(d) == [dir |-> FALSE, data |-> d]

\* Path::components: the separators, empty components and "." are dropped;
\* a leading separator is the root directory
Components(name) ==
  SelectSeq(Split(name, "/"), LAMBDA c : c # <<>> /\ c # <<".">>)

has_root(name) == name # <<>> /\ name[1] = "/"

ParentDir == <<".", ".">>

\* the location the operating system resolves the components to
RECURSIVE ResolveFrom(_, _)
ResolveFrom(loc, comps) ==
  IF comps = <<>> THEN loc
  ELSE IF Head(comps) = ParentDir
       THEN IF loc.path # <<>>
            THEN ResolveFrom([loc EXCEPT !.path = SubSeq(@, 1, Len(@) - 1)],
                             Tail(comps))
            ELSE IF loc.abs THEN ResolveFrom(loc, Tail(comps))
            ELSE ResolveFrom([loc EXCEPT !.up = @ + 1], Tail(comps))
       ELSE ResolveFrom([loc EXCEPT !.path = Append(@, Head(comps))],
                        Tail(comps))

Resolve(name) ==
  ResolveFrom([abs |-> has_root(name), up |-> 0, path |-> <<>>],
              Components(name))

\* the location of the first k components of a path
PrefixLoc(name, k) ==
  ResolveFrom([abs |-> has_root(name), up |-> 0, path |-> <<>>],
              SubSeq(Components(name), 1, k))

IsDirAt(t, loc) == loc \in DOMAIN t /\ t[loc].dir

\* Path::exists
path_exists(t, name) ==
  /\ name # <<>>
  /\ \A k \in 1..Len(Components(name)) :
        /\ PrefixLoc(name, k) \in DOMAIN t
        /\ (k < Len(Components(name)) => t[PrefixLoc(name, k)].dir)

\* fs::create_dir_all: every missing directory along the path is created;
\* it fails at the first component that exists and is not a directory
RECURSIVE MkDirs(_, _, _)
MkDirs(t, name, k) ==
  IF k > Len(Components(name)) THEN [ok |-> TRUE, tree |-> t]
  ELSE LET loc == PrefixLoc(name, k)
       IN  IF loc \in DOMAIN t
           THEN IF t[loc].dir THEN MkDirs(t, name, k + 1)
                ELSE [ok |-> FALSE, tree |-> t]
           ELSE MkDirs((loc :> DirNode) @@ t, name, k + 1)

create_dir_all(t, name) == MkDirs(t, name, 1)

\* Path::parent: the path without its last component
parent(name) ==
  LET comps == Components(name)
      n == Len(comps)
      RECURSIVE Join(_)
      Join(cs) ==
        IF cs = <<>> THEN <<>>
        ELSE IF Len(cs) = 1 THEN Head(cs)
        ELSE Head(cs) \o <<"/">> \o Join(Tail(cs))
  IN  (IF has_root(name) THEN <<"/">> ELSE <<>>) \o Join(SubSeq(comps, 1, n - 1))

\* File::create opening an existing file to append to it
file_create_append(t, name) ==
  LET loc == Resolve(name)
      n == Len(Components(name))
  IN  IF /\ n > 0
         /\ \A k \in 1..(n - 1) : IsDirAt(t, PrefixLoc(name, k))
         /\ ~IsDirAt(t, loc)
      THEN [ok |-> TRUE,
            tree |-> IF loc \in DOMAIN t THEN t
                     ELSE (loc :> FileNode("")) @@ t]
      ELSE [ok |-> FALSE, tree |-> t]

\* File::create: creates or truncates the file; it fails when the directory
\* it lies in is missing or the path names a directory
file_create(t, name) ==
  LET loc == Resolve(name)
      n == Len(Components(name))
  IN  IF /\ n > 0
         /\ \A k \in 1..(n - 1) : IsDirAt(t, PrefixLoc(name, k))
         /\ ~IsDirAt(t, loc)
      THEN [ok |-> TRUE, tree |-> (loc :> FileNode("")) @@ t]
      ELSE [ok |-> FALSE, tree |-> t]

\* the file at a path after bytes were written to its open handle: they go
\* behind what the file holds (nothing, right after File::create)
write_file(t, name, d) ==
  (Resolve(name) :> FileNode(t[Resolve(name)].data \o d)) @@ t

UpdatesDir == <<"u", "p", "d", "a", "t", "e", "s">>

(***************************************************************************)
(* Archives.  The content of a file is named by an identifier; the         *)
(* identifiers in the domain of ZipArchives are well-formed zip archives,  *)
(* every other content fails ZipArchive::new.                              *)
(***************************************************************************)
ZipArchives ==
  ("zipA" :> <<[name |-> <<"f">>, data |-> "a1"]>>)
  @@ ("zipB" :> <<[name |-> <<"d", "/">>, data |-> ""],
                  [name |-> <<"d", "/", "g">>, data |-> "b2"],
                  [name |-> <<"k">>, data |-> "b3"]>>)
  @@ ("zipC" :> <<[name |-> <<".", ".", "/", "e">>, data |-> "c1"],
                  [name |-> <<"f">>, data |-> "c2"]>>)
  @@ ("zipD" :> <<[name |-> <<"/", "r">>, data |-> "d1"],
                  [name |-> <<"d", "/", ".", ".", "/", ".", ".", "/", "e", "/">>,
                   data |-> ""],
                  [name |-> <<"h", "/", "g">>, data |-> "d3"]>>)

ArchiveIds == DOMAIN ZipArchives

\* ZipFile::is_dir: the stored name ends in a separator
is_dir(name) == name # <<>> /\ name[Len(name)] = "/"

RECURSIVE DepthOk(_, _)
DepthOk(comps, depth) ==
  IF comps = <<>> THEN TRUE
  ELSE IF Head(comps) = ParentDir
       THEN depth > 0 /\ DepthOk(Tail(comps), depth - 1)
       ELSE DepthOk(Tail(comps), depth + 1)

\* enclosed_name without the test of the components
enclosed_name_unchecked(name) == Some(name)

\* ZipFile::enclosed_name: None for an absolute name and for one that
\* climbs above its starting directory
enclosed_name(name) ==
  IF has_root(name) \/ ~DepthOk(Components(name), 0) THEN None ELSE Some(name)

(***************************************************************************)
(* Progress events.                                                        *)
(***************************************************************************)
CheckingForUpdates == [type |-> "CheckingForUpdates"]

UpdatesAvailable(ps) == [type |-> "UpdatesAvailable", patches |-> ps]

Downloading(v, downloaded, total_size) ==
  [type |-> "Downloading", current |-> 1, total |-> 1, version |-> v,
   downloaded |-> downloaded, total_size |-> total_size]

Extracting(current, total, v) ==
  [type |-> "Extracting", current |-> current, total |-> total, version |-> v]

Complete == [type |-> "Complete"]

(***************************************************************************)
(* Updater::apply_patch.  A fault is the environment's choice of the one   *)
(* file system or archive operation that fails: at = 0 is no fault.  The   *)
(* result records the operation that failed ("none" on success) and the    *)
(* 1-based index of the entry it failed on (0 outside the loop).           *)
(***************************************************************************)
NoFault == [at |-> 0, step |-> "none"]

ApplySteps == {"by_index", "create_dir_all", "create_parent", "create", "copy"}

\* ExtractingEvent counting the entries from 0
ExtractingEventZeroBased(i, total_files, file_name_str) ==
  Extracting(i - 1, total_files, file_name_str)

\* the event passed to the callback for the i-th entry
ExtractingEvent(i, total_files, file_name_str) ==
  Extracting(i, total_files, file_name_str)

\* one iteration of the loop over the entries, and the iterations after it
RECURSIVE ExtractFrom(_, _, _, _, _, _)
ExtractFrom(t, evs, entries, idx, version, fault) ==
  IF idx > Len(entries)
  THEN [result |-> Ok("unit"), tree |-> t, events |-> evs, failed |-> "none",
        failed_at |-> 0]
  ELSE
    LET name == entries[idx].name
        hit(step) == fault.at = idx /\ fault.step = step
        evs1 == Append(evs, ExtractingEvent(idx, Len(entries), version))
        failed(kind, step, t1, e) ==
          [result |-> Err(kind), tree |-> t1, events |-> e, failed |-> step,
           failed_at |-> idx]
    IN
    IF hit("by_index") THEN failed("ZipExtractionError", "by_index", t, evs)
    ELSE IF enclosed_name(name) = None
    THEN ExtractFrom(t, evs, entries, idx + 1, version, fault)
    ELSE
      LET outpath == unwrap(enclosed_name(name))
      IN
      IF is_dir(name)
      THEN IF hit("create_dir_all")
           THEN failed("FileSystemError", "create_dir_all", t, evs1)
           ELSE LET made == create_dir_all(t, outpath)
                IN  IF made.ok
                    THEN ExtractFrom(made.tree, evs1, entries, idx + 1,
                                     version, fault)
                    ELSE failed("FileSystemError", "create_dir_all",
                                made.tree, evs1)
      ELSE
        LET p == parent(outpath)
            need == Components(outpath) # <<>> /\ ~path_exists(t, p)
            made == IF need THEN create_dir_all(t, p)
                    ELSE [ok |-> TRUE, tree |-> t]
            created == file_create(made.tree, outpath)
        IN
        IF need /\ hit("create_parent")
        THEN failed("FileSystemError", "create_parent", t, evs1)
        ELSE IF ~made.ok
        THEN failed("FileSystemError", "create_parent", made.tree, evs1)
        ELSE IF hit("create")
        THEN failed("FileSystemError", "create", made.tree, evs1)
        ELSE IF ~created.ok
        THEN failed("FileSystemError", "create", made.tree, evs1)
        ELSE IF hit("copy")
        THEN failed("FileSystemError", "copy",
                    write_file(created.tree, outpath, "partial"), evs1)
        ELSE ExtractFrom(write_file(created.tree, outpath, entries[idx].data),
                         evs1, entries, idx + 1, version, fault)

\* apply_patch reporting a file that cannot be opened as a broken archive
apply_patch_open_as_zip_error(t, evs, path, fault) ==
  LET loc == Resolve(path)
  IN  IF fault.step = "open" \/ loc \notin DOMAIN t \/ t[loc].dir
      THEN [result |-> Err("ZipExtractionError"), tree |-> t, events |-> evs,
            failed |-> "open", failed_at |-> 0]
      ELSE IF t[loc].data \notin ArchiveIds
      THEN [result |-> Err("ZipExtractionError"), tree |-> t, events |-> evs,
            failed |-> "parse", failed_at |-> 0]
      ELSE ExtractFrom(t, evs, ZipArchives[t[loc].data], 1,
                       unwrap(file_name(path)), fault)

\* apply_patch restoring the tree when an entry fails
apply_patch_rollback(t, evs, path, fault) ==
  LET loc == Resolve(path)
  IN  IF fault.step = "open" \/ loc \notin DOMAIN t \/ t[loc].dir
      THEN [result |-> Err("FileSystemError"), tree |-> t, events |-> evs,
            failed |-> "open", failed_at |-> 0]
      ELSE IF t[loc].data \notin ArchiveIds
      THEN [result |-> Err("ZipExtractionError"), tree |-> t, events |-> evs,
            failed |-> "parse", failed_at |-> 0]
      ELSE LET r == ExtractFrom(t, evs, ZipArchives[t[loc].data], 1,
                                unwrap(file_name(path)), fault)
           IN  IF r.result.ok THEN r ELSE [r EXCEPT !.tree = t]

apply_patch(t, evs, path, fault) ==
  LET loc == Resolve(path)
  IN  IF fault.step = "open" \/ loc \notin DOMAIN t \/ t[loc].dir
      THEN [result |-> Err("FileSystemError"), tree |-> t, events |-> evs,
            failed |-> "open", failed_at |-> 0]
      ELSE IF t[loc].data \notin ArchiveIds
      THEN [result |-> Err("ZipExtractionError"), tree |-> t, events |-> evs,
            failed |-> "parse", failed_at |-> 0]
      ELSE ExtractFrom(t, evs, ZipArchives[t[loc].data], 1,
                       unwrap(file_name(path)), fault)

\* the faults the environment chooses from while an archive is installed
ApplyFaults ==
  {NoFault, [at |-> 0, step |-> "open"]}
  \cup {[at |-> k, step |-> st] : k \in 1..3, st \in ApplySteps}

(***************************************************************************)
(* Updater::download_patch.  The environment chooses whether the staging   *)
(* file can be created, how the request ends, and the body stream: the     *)
(* announced content length, the sizes of the chunks read() returns, how   *)
(* the stream ends, the write that fails (0 is none), and the body.  The   *)
(* result records how the read loop was left: at the end of the body       *)
(* ("eof"), on a failed read ("read_error"), on a failed write             *)
(* ("write_error"), or never entered ("unread"), the number of chunks      *)
(* written, and the content length the response announced.                 *)
(***************************************************************************)
Streams ==
  {[content_length |-> Some(3), chunks |-> <<2, 1>>, ends |-> "eof"],
   [content_length |-> None, chunks |-> <<3>>, ends |-> "eof"],
   [content_length |-> Some(3), chunks |-> <<2>>, ends |-> "read_error"]}

Bodies == ArchiveIds \cup {"garbage"}

Downloads ==
  {[create |-> FALSE, send |-> "none", stream |-> None, write_fail |-> 0,
    body |-> "none"]}
  \cup {[create |-> TRUE, send |-> sd, stream |-> None, write_fail |-> 0,
         body |-> "none"] : sd \in {"send_error", "status_error"}}
  \cup {[create |-> TRUE, send |-> "ok", stream |-> Some(st), write_fail |-> w,
         body |-> b] : st \in Streams, w \in 0..2, b \in Bodies}

\* the staging path of a patch: updates/patch-<version>.zip
output_path(patch) ==
  UpdatesDir \o <<"/">> \o PatchPrefix \o VersionToString(patch.version)
    \o ZipSuffix

\* ProgressAfterChunk without the test of the content length
ProgressAfterChunkAlways(evs, version, downloaded, total_size) ==
  Append(evs, Downloading(version, downloaded, total_size))

\* the callback behind a written chunk: a Downloading event when the
\* response announced its length
ProgressAfterChunk(evs, version, downloaded, total_size) ==
  IF total_size > 0
  THEN Append(evs, Downloading(version, downloaded, total_size))
  ELSE evs

\* the read loop from chunk k on
RECURSIVE ReadFrom(_, _, _, _, _, _, _)
ReadFrom(t, evs, version, loc, d, k, downloaded) ==
  LET stream == unwrap(d.stream)
      total_size == IF stream.content_length = None THEN 0
                    ELSE unwrap(stream.content_length)
  IN
  IF k > Len(stream.chunks)
  THEN \* read() returned Ok(0) or an error: either way the loop is left
       [ok |-> TRUE,
        tree |-> IF stream.ends = "eof"
                 THEN (loc :> FileNode(d.body)) @@ t ELSE t,
        events |-> evs, ended |-> stream.ends, written |-> k - 1]
  ELSE IF d.write_fail = k
  THEN [ok |-> FALSE, tree |-> t, events |-> evs, ended |-> "write_error",
        written |-> k - 1]
  ELSE LET now == downloaded + stream.chunks[k]
       IN  ReadFrom((loc :> FileNode("partial")) @@ t,
                    ProgressAfterChunk(evs, version, now, total_size),
                    version, loc, d, k + 1, now)

download_patch(t, evs, reqs, patch, d) ==
  LET path == output_path(patch)
      created == file_create(t, path)
      failed(kind, t1, r) ==
        [result |-> Err(kind), tree |-> t1, events |-> evs, requests |-> r,
         ended |-> "unread", written |-> 0, content_length |-> None]
      reqs1 == Append(reqs, patch.download_url)
  IN  IF ~d.create \/ ~created.ok THEN failed("FileSystemError", t, reqs)
      ELSE IF d.send # "ok" THEN failed("NetworkError", created.tree, reqs1)
      ELSE LET r == ReadFrom(created.tree, evs, VersionToString(patch.version),
                             Resolve(path), d, 1, 0)
           IN  [result |-> IF r.ok THEN Ok(path) ELSE Err("FileSystemError"),
                tree |-> r.tree, events |-> r.events, requests |-> reqs1,
                ended |-> r.ended, written |-> r.written,
                content_length |-> unwrap(d.stream).content_length]

(***************************************************************************)
(* State of one Updater and of the update() call on it.                    *)
(***************************************************************************)
VARIABLES
  config,              \* Updater.config: the in-memory configuration
  pc,                  \* the position of update()
  current_version,     \* the parsed installed version (None before the parse)
  response,            \* what the server answered the catalog request with
  patches,             \* the catalog check_for_updates returned
  applicable_patches,  \* the patches update() goes on to apply
  index,               \* the position of the loop in applicable_patches
  patch_path,          \* the archive download_patch returned
  events,              \* the progress events passed to the callback so far
  result,              \* what update() returned (None while it runs)
  requests,            \* the URLs requested from the network so far
  tree,                \* the directory tree below the working directory
  ops,                 \* the download_patch and apply_patch calls so far
  pre_run_version      \* config.version as it was when update() was called

(***************************************************************************)
(* State of the host, LauncherApp, and of the worker threads it spawns.    *)
(***************************************************************************)
VARIABLES
  ui_config,           \* LauncherApp.config
  is_updating,         \* LauncherApp.is_updating, shared with the workers
  new_version,         \* LauncherApp.new_version, shared with the workers
  config_update,       \* LauncherApp.config_update, shared with the workers
  config_file,         \* the configuration AppConfig::write stored last
  workers,             \* the threads spawned so far: position, captured
                       \* configuration, and what update() returned
  exited               \* the process has called exit

hostvars ==
  <<ui_config, is_updating, new_version, config_update, config_file, workers,
    exited>>

vars ==
  <<config, pc, current_version, response, patches, applicable_patches, index,
    patch_path, events, result, requests, tree, ops, pre_run_version,
    ui_config, is_updating, new_version, config_update, config_file, workers,
    exited>>

\* a worker thread
Worker(position, cfg, r) ==
  [pc |-> position, config_clone |-> cfg, result |-> r]

\* the working directory with the staging directory Updater::new creates
InitialTree == (RootLoc :> DirNode) @@ (Resolve(UpdatesDir) :> DirNode)

\* Updater::new: the configuration is moved in and the staging directory
\* exists; the worker that built the Updater is about to call update()
Init ==
  /\ config \in Configs
  /\ pc = "Idle"
  /\ current_version = None
  /\ response = None
  /\ patches = <<>>
  /\ applicable_patches = <<>>
  /\ index = 1
  /\ patch_path = None
  /\ events = <<>>
  /\ result = None
  /\ requests = <<>>
  /\ tree = InitialTree
  /\ ops = <<>>
  /\ pre_run_version = config.version
  /\ ui_config = config
  /\ is_updating = TRUE
  /\ new_version = None
  /\ config_update = None
  /\ config_file = Some(config)
  /\ workers = <<Worker("updating", config, None)>>
  /\ exited = FALSE

\* installed_version falling back to 0.0.0
installed_version_or_default(cfg) ==
  IF cfg.version # None /\ VersionParse(unwrap(cfg.version)).ok
  THEN VersionParse(unwrap(cfg.version))
  ELSE Ok([major |-> 0, minor |-> 0, patch |-> 0, pre |-> <<>>])

\* the installed version update() reads from the configuration
installed_version(cfg) ==
  IF cfg.version = None THEN Err("VersionParseError")
  ELSE VersionParse(unwrap(cfg.version))

\* update(), up to the parse of the installed version
UpdateStart ==
  /\ pc = "Idle"
  /\ events' = Append(events, CheckingForUpdates)
  /\ \E parsed \in {installed_version(config)} :
         IF parsed.ok
         THEN /\ current_version' = Some(parsed.val)
              /\ pc' = "CheckingCatalog"
              /\ result' = result
         ELSE /\ current_version' = current_version
              /\ pc' = "Failed"
              /\ result' = Some(parsed)
  /\ UNCHANGED <<config, response, patches, applicable_patches, index,
                 patch_path, requests, tree, ops, pre_run_version,
                 ui_config, is_updating, new_version, config_update,
                 config_file, workers, exited>>

\* update(): the call of check_for_updates and the UpdatesAvailable event,
\* the server answering with one of the given responses
CheckForUpdatesWith(responses) ==
  /\ pc = "CheckingCatalog"
  /\ \E resp \in responses :
       \E checked \in {check_for_updates(config, resp)} :
           /\ requests' = requests \o checked.requests
           /\ response' = IF checked.requests = <<>> THEN None ELSE Some(resp)
           /\ IF checked.result.ok
              THEN /\ patches' = checked.result.val
                   /\ events' = Append(events,
                                       UpdatesAvailable(checked.result.val))
                   /\ pc' = "Filtering"
                   /\ result' = result
              ELSE /\ patches' = patches
                   /\ events' = events
                   /\ pc' = "Failed"
                   /\ result' = Some(checked.result)
  /\ UNCHANGED <<config, current_version, applicable_patches, index,
                 patch_path, tree, ops, pre_run_version,
                 ui_config, is_updating, new_version, config_update,
                 config_file, workers, exited>>

CheckForUpdates == CheckForUpdatesWith(CatalogResponses)

CheckAnyCatalog == CheckForUpdatesWith(AllCatalogResponses)

\* Applicable with >= in place of >
ApplicableInclusive(ps, v) ==
  sort_by_version(SelectSeq(ps, LAMBDA patch : VersionCmp(patch.version, v) >= 0))

\* Applicable without the filter
ApplicableUnfiltered(ps, v) == sort_by_version(ps)

\* the patches of ps above the version v, in ascending order
Applicable(ps, v) ==
  sort_by_version(SelectSeq(ps, LAMBDA patch : VersionCmp(patch.version, v) = 1))

\* update(): the filter, the sort and the test for an empty list
FilterPatches ==
  /\ pc = "Filtering"
  /\ applicable_patches' = Applicable(patches, unwrap(current_version))
  /\ IF applicable_patches' = <<>>
     THEN /\ pc' = "Failed"
          /\ result' = Some(Err("NoUpdatesAvailable"))
     ELSE /\ pc' = "Downloading"
          /\ result' = result
  /\ UNCHANGED <<config, current_version, response, patches, index, patch_path,
                 events, requests, tree, ops, pre_run_version,
                 ui_config, is_updating, new_version, config_update,
                 config_file, workers, exited>>

\* the loop body of update(): download_patch and the ? on its result, the
\* environment choosing among the given downloads
DownloadPatchWith(downloads) ==
  /\ pc = "Downloading"
  /\ \E d \in downloads :
       LET patch == applicable_patches[index]
       IN  \E got \in {download_patch(tree, events, requests, patch, d)} :
           /\ tree' = got.tree
           /\ events' = got.events
           /\ requests' = got.requests
           /\ ops' = Append(ops, [op |-> "download_patch", index |-> index,
                                  patch |-> patch, result |-> got.result,
                                  ended |-> got.ended,
                                  written |-> got.written,
                                  content_length |-> got.content_length])
           /\ IF got.result.ok
              THEN /\ patch_path' = Some(got.result.val)
                   /\ pc' = "Installing"
                   /\ result' = result
              ELSE /\ patch_path' = patch_path
                   /\ pc' = "Failed"
                   /\ result' = Some(got.result)
  /\ UNCHANGED <<config, current_version, response, patches,
                 applicable_patches, index, pre_run_version,
                 ui_config, is_updating, new_version, config_update,
                 config_file, workers, exited>>

DownloadPatch == DownloadPatchWith(Downloads)

\* AfterApply without the ? on the result of apply_patch
AfterApplyContinue(r, i, n) == IF i < n THEN "Downloading" ELSE "Finishing"

\* AfterApply leaving the loop behind the first patch
AfterApplyOnce(r, i, n) == IF ~r.ok THEN "Failed" ELSE "Finishing"

\* AfterApply downloading the patch again when apply_patch failed
AfterApplyRetry(r, i, n) ==
  IF ~r.ok \/ i < n THEN "Downloading" ELSE "Finishing"

\* where the loop of update() goes after apply_patch returned r
AfterApply(r, i, n) ==
  IF ~r.ok THEN "Failed" ELSE IF i < n THEN "Downloading" ELSE "Finishing"

\* ConfigAfterApply with the assignment ahead of the ? on the result
ConfigAfterApplyAlways(cfg, patch, r) ==
  [cfg EXCEPT !.version = Some(VersionToString(patch.version))]

\* the configuration after apply_patch returned r for the patch: the version
\* is assigned only behind the ? on the result
ConfigAfterApply(cfg, patch, r) ==
  IF r.ok THEN [cfg EXCEPT !.version = Some(VersionToString(patch.version))]
  ELSE cfg

\* ApplyPatchWith storing the configuration behind each installed patch
ApplyPatchPersisting(faults) ==
  /\ pc = "Installing"
  /\ \E fault \in faults :
       LET patch == applicable_patches[index]
       IN  \E applied \in {apply_patch(tree, events, unwrap(patch_path), fault)} :
           /\ tree' = applied.tree
           /\ events' = applied.events
           /\ ops' = Append(ops, [op |-> "apply_patch", index |-> index,
                                  patch |-> patch, result |-> applied.result,
                                  failed |-> applied.failed,
                                  failed_at |-> applied.failed_at])
           /\ pc' = AfterApply(applied.result, index, Len(applicable_patches))
           /\ config' = ConfigAfterApply(config, patch, applied.result)
           /\ config_file' = IF applied.result.ok THEN Some(config')
                             ELSE config_file
           /\ IF applied.result.ok
              THEN /\ index' = index + 1
                   /\ result' = result
              ELSE /\ index' = index
                   /\ result' = Some(applied.result)
  /\ UNCHANGED <<current_version, response, patches, applicable_patches,
                 patch_path, requests, pre_run_version,
                 ui_config, is_updating, new_version, config_update,
                 workers, exited>>

\* the loop body of update(): apply_patch, the ? on its result, and the
\* assignment of the patch's version to config.version, the environment
\* choosing among the given faults
ApplyPatchWith(faults) ==
  /\ pc = "Installing"
  /\ \E fault \in faults :
       LET patch == applicable_patches[index]
       IN  \E applied \in {apply_patch(tree, events, unwrap(patch_path), fault)} :
           /\ tree' = applied.tree
           /\ events' = applied.events
           /\ ops' = Append(ops, [op |-> "apply_patch", index |-> index,
                                  patch |-> patch, result |-> applied.result,
                                  failed |-> applied.failed,
                                  failed_at |-> applied.failed_at])
           /\ pc' = AfterApply(applied.result, index, Len(applicable_patches))
           /\ config' = ConfigAfterApply(config, patch, applied.result)
           /\ IF applied.result.ok
              THEN /\ index' = index + 1
                   /\ result' = result
              ELSE /\ index' = index
                   /\ result' = Some(applied.result)
  /\ UNCHANGED <<current_version, response, patches, applicable_patches,
                 patch_path, requests, pre_run_version,
                 ui_config, is_updating, new_version, config_update,
                 config_file, workers, exited>>

ApplyPatch == ApplyPatchWith(ApplyFaults)

\* Finish without the Complete event
FinishSilent ==
  /\ pc = "Finishing"
  /\ result' = Some(Ok(IF config.version = None
                       THEN <<"u", "n", "k", "n", "o", "w", "n">>
                       ELSE unwrap(config.version)))
  /\ pc' = "Done"
  /\ UNCHANGED <<config, current_version, response, patches,
                 applicable_patches, index, patch_path, events, requests,
                 tree, ops, pre_run_version,
                 ui_config, is_updating, new_version, config_update,
                 config_file, workers, exited>>

\* update() after the loop: the Complete event and the returned version
Finish ==
  /\ pc = "Finishing"
  /\ events' = Append(events, Complete)
  /\ result' = Some(Ok(IF config.version = None
                       THEN <<"u", "n", "k", "n", "o", "w", "n">>
                       ELSE unwrap(config.version)))
  /\ pc' = "Done"
  /\ UNCHANGED <<config, current_version, response, patches,
                 applicable_patches, index, patch_path, requests, tree, ops,
                 pre_run_version,
                 ui_config, is_updating, new_version, config_update,
                 config_file, workers, exited>>

Next ==
  \/ UpdateStart
  \/ CheckForUpdates
  \/ FilterPatches
  \/ DownloadPatch
  \/ ApplyPatch
  \/ Finish

Spec == Init /\ [][Next]_vars

\* the positions in which update() has returned
Terminal == {"Done", "Failed"}

\* the operation update() is at returns, and update() moves on from there
Returns ==
  /\ pc \in {"Idle", "CheckingCatalog", "Filtering", "Downloading",
             "Installing", "Finishing"}
  /\ pc' \in {"CheckingCatalog", "Filtering", "Downloading", "Installing",
              "Finishing"} \cup Terminal
  /\ pc' # pc

\* update() when every network and disk operation it starts returns: it
\* does not stay at one position for ever
FairSpec == Init /\ [][Next]_vars /\ WF_pc(Returns)

\* update() up to the filter, over the larger set of catalogs
CatalogNext ==
  \/ UpdateStart
  \/ CheckAnyCatalog
  \/ FilterPatches

CatalogSpec == Init /\ [][CatalogNext]_vars

(***************************************************************************)
(* The host.  LauncherApp::update runs once per frame on the UI thread:    *)
(* it takes the configuration a worker left for it, handles the update     *)
(* button and, when the window is closing, writes the configuration and    *)
(* exits.  The worker threads run beside it, so the three parts of a frame *)
(* are actions of their own, as is each statement of a worker that touches *)
(* shared state.                                                           *)
(***************************************************************************)
\* the configurations the launcher loads at its start: besides the two
\* fields the updater reads, debug stands for the settings of the UI
HostConfigs ==
  [version : {Some(V_1_0_0)}, update_url : {None, Some(UpdateUrl)},
   debug : {FALSE}]

\* what the server and the file system do during the runs under the host
HostCatalogs == {<<L_1_0_1>>, <<L_1_0_1, L_Url_1_1_0>>}

HostResponses ==
  {[kind |-> "send_error", lines |-> <<>>]}
  \cup {[kind |-> "ok", lines |-> c] : c \in HostCatalogs}

HostDownloads ==
  {d \in Downloads :
     \/ d.send = "send_error"
     \/ /\ d.send = "ok"
        /\ d.body = "zipA"
        /\ d.write_fail = 0
        /\ unwrap(d.stream).ends = "eof"
        /\ unwrap(d.stream).content_length # None}

HostFaults == {NoFault, [at |-> 1, step |-> "create"]}

\* AppConfig::write: the file holds the configuration when the write
\* succeeds and is left as it was otherwise
AppConfigWrite(file, cfg, ok) == IF ok THEN Some(cfg) ELSE file

\* LauncherApp::new: the configuration is the one loaded from the file, no
\* worker exists and no Updater has been built
HostInit ==
  /\ ui_config \in HostConfigs
  /\ is_updating = FALSE
  /\ new_version = None
  /\ config_update = None
  /\ config_file = Some(ui_config)
  /\ workers = <<>>
  /\ exited = FALSE
  /\ config = ui_config
  /\ pc = "NoUpdater"
  /\ current_version = None
  /\ response = None
  /\ patches = <<>>
  /\ applicable_patches = <<>>
  /\ index = 1
  /\ patch_path = None
  /\ events = <<>>
  /\ result = None
  /\ requests = <<>>
  /\ tree = (RootLoc :> DirNode)
  /\ ops = <<>>
  /\ pre_run_version = ui_config.version

enginevars ==
  <<config, pc, current_version, response, patches, applicable_patches, index,
    patch_path, events, result, requests, tree, ops, pre_run_version>>

\* ClickUpdate without the test of is_updating
ClickUpdateUnguarded ==
  /\ ~exited
  /\ is_some(ui_config.update_url)
  /\ Len(workers) < MaxClicks
  /\ is_updating' = TRUE
  /\ workers' = Append(workers, Worker("spawned", ui_config, None))
  /\ UNCHANGED <<ui_config, new_version, config_update, config_file, exited>>
  /\ UNCHANGED enginevars

\* the update button: it is there when a URL is configured, and a click
\* while no run is in flight sets the flag and spawns a worker with a copy
\* of the configuration
ClickUpdate ==
  /\ ~exited
  /\ is_some(ui_config.update_url)
  /\ ~is_updating
  /\ Len(workers) < MaxClicks
  /\ is_updating' = TRUE
  /\ workers' = Append(workers, Worker("spawned", ui_config, None))
  /\ UNCHANGED <<ui_config, new_version, config_update, config_file, exited>>
  /\ UNCHANGED enginevars

\* WorkerNew leaving the flag set when the Updater cannot be built
WorkerNewKeepsFlag ==
  \E w \in 1..Len(workers), fails \in BOOLEAN :
     LET made == IF path_exists(tree, UpdatesDir)
                 THEN [ok |-> TRUE, tree |-> tree]
                 ELSE IF fails THEN [ok |-> FALSE, tree |-> tree]
                 ELSE create_dir_all(tree, UpdatesDir)
     IN  /\ workers[w].pc = "spawned"
         /\ IF made.ok
            THEN /\ workers' = [workers EXCEPT ![w].pc = "updating"]
                 /\ config' = workers[w].config_clone
                 /\ pc' = "Idle"
                 /\ current_version' = None
                 /\ response' = None
                 /\ patches' = <<>>
                 /\ applicable_patches' = <<>>
                 /\ index' = 1
                 /\ patch_path' = None
                 /\ events' = <<>>
                 /\ result' = None
                 /\ requests' = <<>>
                 /\ tree' = made.tree
                 /\ ops' = <<>>
                 /\ pre_run_version' = workers[w].config_clone.version
                 /\ UNCHANGED is_updating
            ELSE /\ workers' = [workers EXCEPT ![w].pc = "done"]
                 /\ UNCHANGED is_updating
                 /\ UNCHANGED enginevars
         /\ UNCHANGED <<ui_config, new_version, config_update, config_file,
                        exited>>

\* the worker builds its Updater: the staging directory is created when it
\* is missing; when that fails the worker clears the flag and ends
WorkerNew ==
  \E w \in 1..Len(workers), fails \in BOOLEAN :
     LET made == IF path_exists(tree, UpdatesDir)
                 THEN [ok |-> TRUE, tree |-> tree]
                 ELSE IF fails THEN [ok |-> FALSE, tree |-> tree]
                 ELSE create_dir_all(tree, UpdatesDir)
     IN  /\ workers[w].pc = "spawned"
         /\ IF made.ok
            THEN /\ workers' = [workers EXCEPT ![w].pc = "updating"]
                 /\ config' = workers[w].config_clone
                 /\ pc' = "Idle"
                 /\ current_version' = None
                 /\ response' = None
                 /\ patches' = <<>>
                 /\ applicable_patches' = <<>>
                 /\ index' = 1
                 /\ patch_path' = None
                 /\ events' = <<>>
                 /\ result' = None
                 /\ requests' = <<>>
                 /\ tree' = made.tree
                 /\ ops' = <<>>
                 /\ pre_run_version' = workers[w].config_clone.version
                 /\ UNCHANGED is_updating
            ELSE /\ workers' = [workers EXCEPT ![w].pc = "done"]
                 /\ is_updating' = FALSE
                 /\ UNCHANGED enginevars
         /\ UNCHANGED <<ui_config, new_version, config_update, config_file,
                        exited>>

\* update() has returned to the worker: it clears the flag; only a
\* returned version leaves it more to do
WorkerClearFlag ==
  \E w \in 1..Len(workers) :
     /\ workers[w].pc = "updating"
     /\ pc \in {"Done", "Failed"}
     /\ is_updating' = FALSE
     /\ workers' = [workers EXCEPT
                      ![w].result = result,
                      ![w].pc = IF unwrap(result).ok THEN "returned"
                                ELSE "done"]
     /\ pc' = "NoUpdater"
     /\ UNCHANGED <<config, current_version, response, patches,
                    applicable_patches, index, patch_path, events, result,
                    requests, tree, ops, pre_run_version>>
     /\ UNCHANGED <<ui_config, new_version, config_update, config_file, exited>>

\* the configuration the worker hands on: its copy with the new version
updated_config(worker) ==
  [worker.config_clone EXCEPT !.version = Some(unwrap(worker.result).val)]

\* the worker stores the returned version in new_version
WorkerSetNewVersion ==
  \E w \in 1..Len(workers) :
     /\ workers[w].pc = "returned"
     /\ new_version' = Some(unwrap(workers[w].result).val)
     /\ workers' = [workers EXCEPT ![w].pc = "version_stored"]
     /\ UNCHANGED <<ui_config, is_updating, config_update, config_file, exited>>
     /\ UNCHANGED enginevars

\* the worker leaves the updated configuration for the UI thread
WorkerSetConfigUpdate ==
  \E w \in 1..Len(workers) :
     /\ workers[w].pc = "version_stored"
     /\ config_update' = Some(updated_config(workers[w]))
     /\ workers' = [workers EXCEPT ![w].pc = "config_stored"]
     /\ UNCHANGED <<ui_config, is_updating, new_version, config_file, exited>>
     /\ UNCHANGED enginevars

\* the worker writes the updated configuration to the file and ends
WorkerWriteConfig ==
  \E w \in 1..Len(workers), ok \in BOOLEAN :
     /\ workers[w].pc = "config_stored"
     /\ config_file' = AppConfigWrite(config_file, updated_config(workers[w]), ok)
     /\ workers' = [workers EXCEPT ![w].pc = "done"]
     /\ UNCHANGED <<ui_config, is_updating, new_version, config_update, exited>>
     /\ UNCHANGED enginevars

\* the start of a frame: the configuration a worker left is taken over
FrameTakeConfigUpdate ==
  /\ ~exited
  /\ config_update # None
  /\ ui_config' = unwrap(config_update)
  /\ config_update' = None
  /\ UNCHANGED <<is_updating, new_version, config_file, workers, exited>>
  /\ UNCHANGED enginevars

\* the end of a frame in which the window is closing: the configuration is
\* written and the process exits, which ends every worker
Shutdown ==
  /\ ~exited
  /\ \E ok \in BOOLEAN :
       config_file' = AppConfigWrite(config_file, ui_config, ok)
  /\ exited' = TRUE
  /\ workers' = [w \in 1..Len(workers) |->
                   IF workers[w].pc = "done" THEN workers[w]
                   ELSE [workers[w] EXCEPT !.pc = "killed"]]
  /\ pc' = "Exited"
  /\ UNCHANGED <<config, current_version, response, patches,
                 applicable_patches, index, patch_path, events, result,
                 requests, tree, ops, pre_run_version>>
  /\ UNCHANGED <<ui_config, is_updating, new_version, config_update>>

HostCheckForUpdates == CheckForUpdatesWith(HostResponses)

HostDownloadPatch == DownloadPatchWith(HostDownloads)

HostApplyPatch == ApplyPatchWith(HostFaults)

HostNext ==
  \/ ClickUpdate
  \/ WorkerNew
  \/ UpdateStart
  \/ HostCheckForUpdates
  \/ FilterPatches
  \/ HostDownloadPatch
  \/ HostApplyPatch
  \/ Finish
  \/ WorkerClearFlag
  \/ WorkerSetNewVersion
  \/ WorkerSetConfigUpdate
  \/ WorkerWriteConfig
  \/ FrameTakeConfigUpdate
  \/ Shutdown

HostSpec == HostInit /\ [][HostNext]_vars

\* the host when its threads are scheduled: the operation update() is at
\* returns, and a worker that can take its next step takes it; a click and
\* the closing of the window are up to the user
HostFairSpec ==
  /\ HostInit
  /\ [][HostNext]_vars
  /\ WF_pc(Returns)
  /\ WF_vars(WorkerNew)
  /\ WF_vars(WorkerClearFlag)
  /\ WF_vars(WorkerSetNewVersion)
  /\ WF_vars(WorkerSetConfigUpdate)
  /\ WF_vars(WorkerWriteConfig)

\* the user changes a setting: the widget writes to the configuration of
\* the UI thread
ChangeSetting ==
  /\ ~exited
  /\ ui_config' = [ui_config EXCEPT !.debug = ~ui_config.debug]
  /\ UNCHANGED <<is_updating, new_version, config_update, config_file,
                 workers, exited>>
  /\ UNCHANGED enginevars

\* the host with a user who also changes settings
SettingsNext ==
  \/ HostNext
  \/ ChangeSetting

SettingsSpec == HostInit /\ [][SettingsNext]_vars


(***************************************************************************)
(* Properties.                                                             *)
(***************************************************************************)
Range(seq) == {seq[k] : k \in 1..Len(seq)}

Count(seq, x) == Cardinality({k \in 1..Len(seq) : seq[k] = x})

Last(seq) == seq[Len(seq)]

Greater(a, b) == VersionCmp(a, b) = 1

\* no entry of the sequence is above a later one
Ascending(seq) ==
  \A j, k \in 1..Len(seq) : j < k => ~Greater(seq[j].version, seq[k].version)

\* every entry of the sequence is below the later ones
StrictlyAscending(seq) ==
  \A j, k \in 1..Len(seq) : j < k => Greater(seq[k].version, seq[j].version)

\* the input contract of the catalog: no version is offered twice
DistinctVersions(seq) ==
  \A j, k \in 1..Len(seq) : j # k => VersionCmp(seq[j].version, seq[k].version) # 0

HasEvent(type) == \E k \in 1..Len(events) : events[k].type = type

\* update() is past the filter
Filtered == pc \notin {"Idle", "CheckingCatalog", "Filtering"}

V_1_0_1 == <<"1", ".", "0", ".", "1">>

V_0_9_0 == <<"0", ".", "9", ".", "0">>

\* C1: the patches update() goes on to apply are exactly the entries of the
\* fetched catalog whose version is strictly greater than the installed
\* version, each as often as the catalog holds it, in ascending order
C1_ApplicableIsFilter ==
  (Filtered /\ patches # <<>>) =>
     /\ Ascending(applicable_patches)
     /\ Range(applicable_patches) \subseteq Range(patches)
     /\ \A p \in Range(patches) :
          Count(applicable_patches, p) =
            IF Greater(p.version, unwrap(current_version))
            THEN Count(patches, p) ELSE 0

\* a catalog with an entry at the installed version and two entries above it
C1_Witness ==
  /\ Filtered
  /\ Len(applicable_patches) = 2
  /\ \E p \in Range(patches) : VersionCmp(p.version, unwrap(current_version)) = 0

\* C2: the calls alternate download_patch, apply_patch over the applicable
\* patches in their ascending order (strictly ascending when the catalog
\* offers no version twice), every call but the last one has succeeded, and
\* a failed call is the last one: update() has returned its error
C2_OneAtATimeInOrder ==
  /\ Ascending(applicable_patches)
  /\ DistinctVersions(patches) => StrictlyAscending(applicable_patches)
  /\ \A k \in 1..Len(ops) :
       /\ ops[k].index = (k + 1) \div 2
       /\ ops[k].op = IF k % 2 = 1 THEN "download_patch" ELSE "apply_patch"
       /\ ops[k].index <= Len(applicable_patches)
       /\ ops[k].patch = applicable_patches[ops[k].index]
       /\ (k < Len(ops) => ops[k].result.ok)
       /\ (~ops[k].result.ok => pc = "Failed" /\ result = Some(ops[k].result))

\* the first patch is installed and the download of the second one fails
C2_Witness ==
  /\ pc = "Failed"
  /\ Len(ops) = 3
  /\ ~ops[3].result.ok
  /\ ops[3].op = "download_patch"

\* C3: when update() failed in the download or the install of the k-th
\* applicable patch, config.version is the version of the (k-1)-th one, or
\* what it was before the run when k = 1
C3_VersionOnFailure ==
  (pc = "Failed" /\ ops # <<>>) =>
     config.version =
       IF Last(ops).index = 1 THEN pre_run_version
       ELSE Some(VersionToString(
              applicable_patches[Last(ops).index - 1].version))

\* the extraction of the second patch fails
C3_Witness ==
  /\ pc = "Failed"
  /\ Len(ops) = 4
  /\ Last(ops).op = "apply_patch"
  /\ Last(ops).result = Err("FileSystemError")

\* C4: when update() has succeeded, every applicable patch was downloaded
\* and then installed, Complete is the last event, and the returned string
\* is the version of the highest applicable patch, which is config.version
C4_SuccessAppliesAll ==
  pc = "Done" =>
     /\ \A i \in 1..Len(applicable_patches) :
          \E j, k \in 1..Len(ops) :
             /\ j < k
             /\ ops[j].op = "download_patch" /\ ops[j].result.ok
             /\ ops[k].op = "apply_patch" /\ ops[k].result.ok
             /\ ops[j].index = i /\ ops[k].index = i
             /\ ops[j].patch = applicable_patches[i]
             /\ ops[k].patch = applicable_patches[i]
     /\ Last(events) = Complete
     /\ Count(events, Complete) = 1
     /\ \A p \in Range(applicable_patches) :
          ~Greater(p.version, Last(applicable_patches).version)
     /\ result = Some(Ok(VersionToString(Last(applicable_patches).version)))
     /\ config.version = Some(unwrap(result).val)

\* a successful run over two patches
C4_Witness == pc = "Done" /\ Len(applicable_patches) = 2 /\ Len(ops) = 4

\* the archive the last call of apply_patch read
AppliedArchive == ZipArchives[tree[Resolve(unwrap(patch_path))].data]

Escapes(name) == ~Inside(Resolve(name))

\* C5: no file or directory exists outside the extraction root, and where
\* apply_patch has succeeded, every file entry of the archive that stays
\* inside the root is on disk with its content (an escaping entry before it
\* did not end the extraction)
C5_NothingOutsideRoot ==
  /\ \A loc \in DOMAIN tree : Inside(loc)
  /\ (ops # <<>> /\ Last(ops).op = "apply_patch" /\ Last(ops).result.ok) =>
        \A k \in 1..Len(AppliedArchive) :
           LET e == AppliedArchive[k]
           IN  (/\ ~Escapes(e.name)
                /\ ~is_dir(e.name)
                /\ \A m \in (k + 1)..Len(AppliedArchive) :
                      Resolve(AppliedArchive[m].name) # Resolve(e.name))
               => /\ Resolve(e.name) \in DOMAIN tree
                  /\ tree[Resolve(e.name)] = FileNode(e.data)

\* an archive with an escaping entry ahead of an entry inside the root was
\* installed
C5_Witness ==
  /\ ops # <<>>
  /\ Last(ops).op = "apply_patch"
  /\ Last(ops).result.ok
  /\ \E j, k \in 1..Len(AppliedArchive) :
        /\ j < k
        /\ Escapes(AppliedArchive[j].name)
        /\ ~Escapes(AppliedArchive[k].name)

\* C6: a non-empty catalog without an entry above the installed version
\* ends update() with NoUpdatesAvailable: nothing was downloaded or
\* installed, the catalog request is the only one, there is no Complete
\* event and config.version is what it was
C6_NothingApplicable ==
  (/\ Filtered
   /\ patches # <<>>
   /\ \A p \in Range(patches) : ~Greater(p.version, unwrap(current_version)))
  => /\ pc = "Failed"
     /\ result = Some(Err("NoUpdatesAvailable"))
     /\ ops = <<>>
     /\ requests = <<unwrap(config.update_url)>>
     /\ tree = InitialTree
     /\ ~HasEvent("Complete")
     /\ config.version = pre_run_version

\* installed version 2.0.0, the catalog is patch-1.0.0.zip alone
C6_Witness ==
  /\ pc = "Failed"
  /\ pre_run_version = Some(V_2_0_0)
  /\ response = Some([kind |-> "ok", lines |-> <<L_1_0_0>>])
  /\ Len(patches) = 1

\* the installed version is missing or is not a semantic version
NoInstalledVersion ==
  pre_run_version = None \/ ~VersionParse(unwrap(pre_run_version)).ok

\* C7: without a parseable installed version update() fails with
\* VersionParseError, with or without an update URL, and has issued no
\* request and changed nothing on disk
C7_VersionParseErrorFirst ==
  (pc # "Idle" /\ NoInstalledVersion) =>
     /\ pc = "Failed"
     /\ result = Some(Err("VersionParseError"))
     /\ requests = <<>>
     /\ response = None
     /\ tree = InitialTree
     /\ ops = <<>>

\* an unparseable version and no update URL
C7_Witness ==
  /\ pc = "Failed"
  /\ pre_run_version = Some(V_1_0)
  /\ config.update_url = None

\* C8: without an update URL check_for_updates fails with
\* NoUpdateUrlConfigured and no request is issued
C8_NoUrlNoRequest ==
  (config.update_url = None /\ pc \notin {"Idle", "CheckingCatalog"}
     /\ ~NoInstalledVersion)
  => /\ pc = "Failed"
     /\ result = Some(Err("NoUpdateUrlConfigured"))
     /\ requests = <<>>
     /\ response = None

C8_Witness ==
  /\ result = Some(Err("NoUpdateUrlConfigured"))
  /\ events = <<CheckingForUpdates>>

\* the versions the catalog lines are written from
KnownVersions ==
  [major : 0..3, minor : 0..9, patch : 0..1, pre : {<<>>, <<"r", "c", "1">>}]

PatchName(v) == PatchPrefix \o VersionToString(v) \o ZipSuffix

\* t is raw without its leading and trailing white space
IsTrimOf(t, raw) ==
  \E a, b \in 0..Len(raw) :
     /\ a + b <= Len(raw)
     /\ t = SubSeq(raw, a + 1, Len(raw) - b)
     /\ \A k \in 1..a : raw[k] \in WhiteSpace
     /\ \A k \in (Len(raw) - b + 1)..Len(raw) : raw[k] \in WhiteSpace
     /\ (t # <<>> => t[1] \notin WhiteSpace /\ t[Len(t)] \notin WhiteSpace)
     /\ (t = <<>> => a = Len(raw))

\* the text behind the last separator
LastSegment(s) ==
  LET cut == {k \in 1..Len(s) : s[k] = "/"}
  IN  IF cut = {} THEN s
      ELSE SubSeq(s, (CHOOSE k \in cut : \A m \in cut : m <= k) + 1, Len(s))

\* what a line of the catalog stands for: one PatchInfo when the line is
\* neither blank nor a comment and its final path segment is
\* patch-<semver>.zip, nothing otherwise
ExpectedOfLine ==
  [raw \in CatalogLines |->
     LET t == CHOOSE x \in {SubSeq(raw, a, b) : a \in 1..(Len(raw) + 1),
                                                 b \in 0..Len(raw)} :
                 IsTrimOf(x, raw)
     IN  IF t # <<>> /\ t[1] # "#"
            /\ \E v \in KnownVersions : LastSegment(t) = PatchName(v)
         THEN <<[version |-> CHOOSE v \in KnownVersions :
                               LastSegment(t) = PatchName(v),
                 download_url |-> t]>>
         ELSE <<>>]

RECURSIVE ExpectedOf(_)
ExpectedOf(lines) ==
  IF lines = <<>> THEN <<>>
  ELSE ExpectedOfLine[Head(lines)] \o ExpectedOf(Tail(lines))

\* C9: the fetched catalog holds exactly one PatchInfo (with the trimmed
\* line as download_url) for each line that is no blank line, no comment and
\* whose final path segment is patch-<semver>.zip, and nothing for any other
\* line; the other lines never fail the fetch, which ends with
\* NoUpdatesAvailable only when no line is left
C9_CatalogParsing ==
  (response # None /\ unwrap(response).kind = "ok") =>
     LET expected == ExpectedOf(unwrap(response).lines)
     IN  IF expected = <<>>
         THEN /\ pc = "Failed"
              /\ result = Some(Err("NoUpdatesAvailable"))
              /\ patches = <<>>
         ELSE /\ Len(patches) = Len(expected)
              /\ \A e \in Range(expected) :
                    Count(patches, e) = Count(expected, e)
              /\ HasEvent("UpdatesAvailable")

\* a padded URL, a comment that ends in a patch name and a bad version
C9_Witness ==
  /\ response = Some([kind |-> "ok",
                      lines |-> <<L_Url_1_1_0, L_Comment_3_0_0, L_BadVersion>>])
  /\ Len(patches) = 1
  /\ patches[1].download_url = SubSeq(L_Url_1_1_0, 2, Len(L_Url_1_1_0) - 1)

\* installed version 1.0.0 and the catalog of the scenario
Scenario ==
  /\ pre_run_version = Some(V_1_0_0)
  /\ response = Some([kind |-> "ok", lines |-> ScenarioCatalog])

VersionsOf(seq) == [k \in 1..Len(seq) |-> VersionToString(seq[k].version)]

\* C10 as stated: in the scenario the catalog parses to the one entry 1.0.1,
\* the applicable patches are [1.0.1] and a successful run returns 1.0.1
C10_ScenarioOneEntry ==
  Scenario =>
     /\ VersionsOf(patches) = <<V_1_0_1>>
     /\ (Filtered => VersionsOf(applicable_patches) = <<V_1_0_1>>)
     /\ (pc = "Done" => result = Some(Ok(V_1_0_1)))

\* C10 as amended: in the scenario the catalog parses to the two entries
\* 0.9.0 and 1.0.1, the applicable patches are [1.0.1] and a successful run
\* returns 1.0.1
C10_ScenarioTwoEntries ==
  Scenario =>
     /\ VersionsOf(patches) = <<V_0_9_0, V_1_0_1>>
     /\ (Filtered => VersionsOf(applicable_patches) = <<V_1_0_1>>)
     /\ (pc = "Done" => result = Some(Ok(V_1_0_1)))

\* the scenario has run to its end
C10_Witness == Scenario /\ pc = "Done"

\* check_for_updates returned a list to update()
CatalogReturned == HasEvent("UpdatesAvailable")

\* C11: whenever check_for_updates returns successfully the returned list is
\* non-empty and ascending by version, and when no line of a fetched body
\* stands for an entry it fails with NoUpdatesAvailable and returns no list
C11_CatalogNonEmptySorted ==
  /\ CatalogReturned => (patches # <<>> /\ Ascending(patches))
  /\ (response # None /\ unwrap(response).kind = "ok"
        /\ ExpectedOf(unwrap(response).lines) = <<>>) =>
       /\ ~CatalogReturned
       /\ pc = "Failed"
       /\ result = Some(Err("NoUpdatesAvailable"))

\* a body whose entries are listed in descending order was returned
C11_Witness ==
  /\ CatalogReturned
  /\ response = Some([kind |-> "ok", lines |-> <<L_1_0_1, L_0_9_0, L_1_0_0>>])
  /\ VersionsOf(patches) = <<V_0_9_0, V_1_0_0, V_1_0_1>>

\* the calls of download_patch so far
DownloadOps == {k \in 1..Len(ops) : ops[k].op = "download_patch"}

\* C12: a failed read of the response body makes download_patch return
\* NetworkError and a failed write of a chunk makes it return
\* FileSystemError; in neither case does it return the path of the file
C12_StreamFailuresSurfaced ==
  \A k \in DownloadOps :
     /\ ops[k].ended = "read_error" => ops[k].result = Err("NetworkError")
     /\ ops[k].ended = "write_error" => ops[k].result = Err("FileSystemError")
     /\ ops[k].ended \in {"read_error", "write_error"} => ~ops[k].result.ok

\* apply_patch was the last call of the loop
ApplyReturned == ops # <<>> /\ Last(ops).op = "apply_patch"

\* the staged file the last call of apply_patch was given holds no archive
NotAnArchive == tree[Resolve(unwrap(patch_path))].data \notin ArchiveIds

\* C13 as stated: apply_patch reports a failure to open the archive file
\* and a failure to parse it as a zip archive as ZipExtractionError
C13_OpenOrParseIsZipError ==
  ApplyReturned =>
     /\ Last(ops).failed = "open" =>
          Last(ops).result = Err("ZipExtractionError")
     /\ (Last(ops).failed # "open" /\ NotAnArchive) =>
          Last(ops).result = Err("ZipExtractionError")

\* C13 as amended: apply_patch reports a failure to open the archive file
\* as FileSystemError and a failure to parse the opened file as a zip
\* archive as ZipExtractionError
C13_OpenIsFileSystemError ==
  ApplyReturned =>
     /\ Last(ops).failed = "open" =>
          Last(ops).result = Err("FileSystemError")
     /\ (Last(ops).failed # "open" /\ NotAnArchive) =>
          Last(ops).result = Err("ZipExtractionError")

\* a well-formed archive was staged and could not be opened
C13_Witness ==
  /\ ApplyReturned
  /\ Last(ops).failed = "open"
  /\ ~NotAnArchive
  /\ pc = "Failed"

\* the file system operations of the loop over the entries
FileSystemSteps == {"create_dir_all", "create_parent", "create", "copy"}

\* location a is location b or lies above it
AtOrAbove(a, b) ==
  /\ a.abs = b.abs
  /\ a.up = b.up
  /\ Len(a.path) <= Len(b.path)
  /\ SubSeq(b.path, 1, Len(a.path)) = a.path

\* the events a step passed to the callback
NewEvents == SubSeq(events', Len(events) + 1, Len(events'))

\* the step is a call of apply_patch on a well-formed archive in which a
\* file system operation failed
InstallFailedOnEntry ==
  /\ pc = "Installing"
  /\ Len(ops') = Len(ops) + 1
  /\ Last(ops').failed \in FileSystemSteps

\* C14: apply_patch goes through the entries in archive order, and the first
\* file system failure returns FileSystemError at once: no entry behind the
\* failing one is written, and the entries written ahead of it stay on disk
C14_AbortAtFirstFailure ==
  [][InstallFailedOnEntry =>
       LET entries == ZipArchives[tree[Resolve(unwrap(patch_path))].data]
           i == Last(ops').failed_at
           loc(j) == Resolve(entries[j].name)
       IN  /\ Last(ops').result = Err("FileSystemError")
           /\ pc' = "Failed"
           /\ i \in 1..Len(entries)
           /\ \A k \in 1..Len(NewEvents) :
                 /\ NewEvents[k].type = "Extracting"
                 /\ NewEvents[k].current <= i
                 /\ (k > 1 => NewEvents[k - 1].current < NewEvents[k].current)
           /\ \A j \in (i + 1)..Len(entries) :
                 (\A k \in 1..i : ~AtOrAbove(loc(j), loc(k))) =>
                    /\ (loc(j) \in DOMAIN tree') = (loc(j) \in DOMAIN tree)
                    /\ (loc(j) \in DOMAIN tree => tree'[loc(j)] = tree[loc(j)])
           /\ \A j \in 1..(i - 1) :
                 (/\ Inside(loc(j))
                  /\ \A k \in (j + 1)..i : ~AtOrAbove(loc(k), loc(j))) =>
                    /\ loc(j) \in DOMAIN tree'
                    /\ tree'[loc(j)] = IF is_dir(entries[j].name) THEN DirNode
                                       ELSE FileNode(entries[j].data)]_vars

\* the copy of the second of three entries failed: the directory of the
\* first entry is on disk, the file of the third is not
C14_Witness ==
  /\ ApplyReturned
  /\ Last(ops).failed = "copy"
  /\ Last(ops).failed_at = 2
  /\ tree[Resolve(unwrap(patch_path))].data = "zipB"
  /\ IsDirAt(tree, Resolve(<<"d">>))
  /\ tree[Resolve(<<"d", "/", "g">>)] = FileNode("partial")
  /\ Resolve(<<"k">>) \notin DOMAIN tree

\* the step is a call of apply_patch that opened and parsed its archive
InstallRanEntries ==
  /\ pc = "Installing"
  /\ Len(ops') = Len(ops) + 1
  /\ Last(ops').failed \notin {"open", "parse"}

\* the archive the step installs
InstalledEntries == ZipArchives[tree[Resolve(unwrap(patch_path))].data]

\* the indices of the entries the step got hold of, in archive order: all of
\* them when it succeeded, otherwise those up to the failing one (without
\* it, when the archive could not hand it out)
EntriesReached ==
  SelectSeq([j \in 1..Len(InstalledEntries) |-> j],
            LAMBDA j :
              \/ Last(ops').result.ok
              \/ j < Last(ops').failed_at
              \/ j = Last(ops').failed_at /\ Last(ops').failed # "by_index")

\* the events of the step are the Extracting events of the given entries,
\* each with its 1-based index and the number of entries of the archive
ExtractingEventsFor(idxs) ==
  /\ Len(NewEvents) = Len(idxs)
  /\ \A k \in 1..Len(idxs) :
        /\ NewEvents[k].type = "Extracting"
        /\ NewEvents[k].current = idxs[k]
        /\ NewEvents[k].total = Len(InstalledEntries)

\* C15 as stated: for each entry of the archive, in archive order, apply_patch
\* emits an Extracting event with the entry's 1-based index and the number
\* of entries of the archive before it processes the entry
C15_EventForEveryEntry ==
  [][InstallRanEntries => ExtractingEventsFor(EntriesReached)]_vars

\* C15 as amended: for each entry whose name stays inside the extraction
\* root, in archive order, apply_patch emits an Extracting event with the
\* entry's 1-based index and the number of entries of the archive before it
\* processes the entry; an entry skipped for its name gets no event
C15_EventForEveryEnclosedEntry ==
  [][InstallRanEntries =>
       ExtractingEventsFor(
         SelectSeq(EntriesReached,
                   LAMBDA j : ~Escapes(InstalledEntries[j].name)))]_vars

\* an archive whose first entry escapes the root was installed: the one
\* event of the call is that of the second entry
C15_Witness ==
  /\ ApplyReturned
  /\ Last(ops).result.ok
  /\ tree[Resolve(unwrap(patch_path))].data = "zipC"
  /\ Last(events) = Extracting(2, 2, unwrap(file_name(unwrap(patch_path))))
  /\ events[Len(events) - 1].type # "Extracting"

\* the step is a call of download_patch
DownloadStep == pc = "Downloading" /\ Len(ops') = Len(ops) + 1

\* C17: download_patch emits a Downloading event behind each chunk it wrote
\* exactly when the response announced a content length above zero, and
\* none otherwise; in every such event the bytes so far are at most the
\* total and never less than in the event before
C17_DownloadingEvents ==
  [][DownloadStep =>
       LET op == Last(ops')
           total == IF op.content_length = None THEN 0
                    ELSE unwrap(op.content_length)
       IN  /\ Len(NewEvents) = IF total > 0 THEN op.written ELSE 0
           /\ \A k \in 1..Len(NewEvents) :
                 /\ NewEvents[k].type = "Downloading"
                 /\ NewEvents[k].total_size = total
                 /\ NewEvents[k].downloaded > 0
                 /\ NewEvents[k].downloaded <= total
                 /\ (k > 1 => NewEvents[k - 1].downloaded
                                 <= NewEvents[k].downloaded)]_vars

\* a body of three bytes with an announced length came in two chunks
C17_Witness ==
  /\ ops # <<>>
  /\ Last(ops).op = "download_patch"
  /\ Last(ops).written = 2
  /\ Last(ops).content_length = Some(3)
  /\ events[Len(events) - 1].type = "Downloading"
  /\ events[Len(events) - 1].downloaded = 2
  /\ Last(events).type = "Downloading"
  /\ Last(events).downloaded = 3

\* the staged file of the i-th applicable patch
StagedFile(i) == Resolve(output_path(applicable_patches[i]))

\* the step installs, for the second patch of the run, the archive the
\* first patch of the run installed with success
ReinstallStep ==
  /\ pc = "Installing"
  /\ index = 2
  /\ Len(ops') = Len(ops) + 1
  /\ ops[2].op = "apply_patch"
  /\ ops[2].result.ok
  /\ StagedFile(1) # StagedFile(2)
  /\ tree[StagedFile(1)].data = tree[StagedFile(2)].data

\* C18: installing an archive once more over the tree a successful install
\* of the same archive produced leaves the tree as it is
C18_ReinstallIsIdempotent ==
  [][(ReinstallStep /\ Last(ops').result.ok) => tree' = tree]_vars

\* an archive of a directory and two files was installed twice in one run
C18_Witness ==
  /\ Len(ops) = 4
  /\ ops[2].result.ok
  /\ ops[4].result.ok
  /\ StagedFile(1) # StagedFile(2)
  /\ tree[StagedFile(1)].data = "zipB"
  /\ tree[StagedFile(2)].data = "zipB"
  /\ tree[Resolve(<<"d", "/", "g">>)] = FileNode("b2")

EventsOfType(type) == {k \in 1..Len(events) : events[k].type = type}

\* check_for_updates has returned and it returned a catalog: the server
\* answered with a body that holds a patch line
FetchSucceeded ==
  /\ pc \notin {"Idle", "CheckingCatalog"}
  /\ response # None
  /\ unwrap(response).kind = "ok"
  /\ ExpectedOf(unwrap(response).lines) # <<>>

\* C20: CheckingForUpdates is the first event of update(); UpdatesAvailable
\* is emitted exactly once when the catalog fetch succeeds, ahead of every
\* Downloading and Extracting event, with the whole fetched catalog;
\* Complete is emitted only when update() returns success and is then the
\* last event
C20_EventOrder ==
  /\ pc # "Idle" => (events # <<>> /\ events[1] = CheckingForUpdates)
  /\ Cardinality(EventsOfType("UpdatesAvailable")) =
        IF FetchSucceeded THEN 1 ELSE 0
  /\ \A k \in EventsOfType("UpdatesAvailable") :
        /\ events[k].patches = patches
        /\ Len(events[k].patches) = Len(ExpectedOf(unwrap(response).lines))
        /\ \A j \in EventsOfType("Downloading") \cup EventsOfType("Extracting") :
              k < j
  /\ (EventsOfType("Downloading") \cup EventsOfType("Extracting") # {}) =>
        HasEvent("UpdatesAvailable")
  /\ HasEvent("Complete") =>
        /\ pc = "Done"
        /\ EventsOfType("Complete") = {Len(events)}
  /\ pc \in {"Done", "Failed"} =>
        (unwrap(result).ok <=> (events # <<>> /\ Last(events) = Complete))

\* a run that ended with success on a catalog that also holds an entry
\* below the installed version
C20_Witness ==
  /\ pc = "Done"
  /\ Last(events) = Complete
  /\ events[2].type = "UpdatesAvailable"
  /\ \E p \in Range(events[2].patches) :
        VersionCmp(p.version, unwrap(current_version)) = -1
  /\ HasEvent("Downloading")
  /\ HasEvent("Extracting")

\* the workers between the spawn and the return of update()
InFlight == {w \in 1..Len(workers) : workers[w].pc \in {"spawned", "updating"}}

\* C16: the host starts an update run only when none is in flight: at most
\* one worker is between its spawn and the return of its call of update(),
\* and the flag is set for as long as one is
C16_OneRunInFlight ==
  /\ Cardinality(InFlight) <= 1
  /\ InFlight # {} => is_updating

\* a second run is in update() while the worker of the first run has not
\* yet written the configuration
C16_Witness ==
  /\ Len(workers) = 2
  /\ workers[1].pc = "config_stored"
  /\ workers[2].pc = "updating"
  /\ pc = "Downloading"

\* the positions of update() between its call and its return
EnginePcs ==
  {"Idle", "CheckingCatalog", "Filtering", "Downloading", "Installing",
   "Finishing"}

\* the step is one of update()
EngineStep == pc \in EnginePcs /\ pc' \notin {pc, "Exited"}

EngineState(position) ==
  IF position \in {"Downloading", "Installing", "Finishing"}
  THEN "ApplyingPatch" ELSE position

\* the moves between the states of the orchestrator
StateMoves ==
  {<<"Idle", "CheckingCatalog">>, <<"Idle", "Failed">>,
   <<"CheckingCatalog", "Filtering">>, <<"CheckingCatalog", "Failed">>,
   <<"Filtering", "ApplyingPatch">>, <<"Filtering", "Done">>,
   <<"Filtering", "Failed">>,
   <<"ApplyingPatch", "ApplyingPatch">>, <<"ApplyingPatch", "Done">>,
   <<"ApplyingPatch", "Failed">>}

\* the requests sent to the endpoint of the catalog; the URL of a patch is
\* never the endpoint, as it ends in .zip
CatalogRequests == Count(requests, UpdateUrl)

\* update() has returned exactly when it is in a terminal state, with a
\* version in Done and an error in Failed
ReturnedAtEnd ==
  /\ pc \in Terminal <=> result # None
  /\ pc = "Done" => unwrap(result).ok
  /\ pc = "Failed" => ~unwrap(result).ok

\* a step that failed was the last one: only the last download or install
\* may have failed, each patch is downloaded and installed at most once, and
\* a failure has ended the call
NoRetry ==
  /\ \A k \in 1..Len(ops) : ~ops[k].result.ok => k = Len(ops) /\ pc = "Failed"
  /\ \A j, k \in 1..Len(ops) :
       j # k /\ ops[j].op = ops[k].op => ops[j].index # ops[k].index

\* one outcome of the operation update() is at: the environment always has
\* one to give
SomeOutcome ==
  \/ UpdateStart
  \/ CheckForUpdatesWith({[kind |-> "send_error", lines |-> <<>>]})
  \/ FilterPatches
  \/ DownloadPatchWith({d \in Downloads : ~d.create})
  \/ ApplyPatchWith({[at |-> 0, step |-> "open"]})
  \/ Finish

\* C21: a call of update() moves through Idle, CheckingCatalog, Filtering
\* and ApplyingPatch (any number of times) and ends in exactly one of Done
\* and Failed, which it never leaves; when every network and disk operation
\* returns it does reach Done or Failed; it sends at most one request for
\* the catalog and repeats no step that failed
C21_RunsToCompletion ==
  /\ [][/\ <<EngineState(pc), EngineState(pc')>> \in StateMoves
        /\ pc \notin Terminal]_vars
  /\ [](ReturnedAtEnd /\ CatalogRequests <= 1 /\ NoRetry)
  /\ [](pc \notin Terminal => ENABLED SomeOutcome)
  /\ <>(pc \in Terminal)

\* update() has ended in Done after it applied two patches, with its one
\* request for the catalog
C21_Witness ==
  /\ pc = "Done"
  /\ Len(applicable_patches) = 2
  /\ Len(ops) = 4
  /\ CatalogRequests = 1

\* the step is a call of download_patch or of apply_patch for a patch
PatchStep == pc \in {"Downloading", "Installing"} /\ Len(ops') = Len(ops) + 1

\* C22: every Downloading and every Extracting event emitted while a patch
\* is applied carries in its version field the version string of that
\* patch, the same string in both kinds of event
C22_EventsCarryPatchVersion ==
  [][PatchStep =>
       \A k \in 1..Len(NewEvents) :
          NewEvents[k].type \in {"Downloading", "Extracting"}
            => NewEvents[k].version
                 = VersionToString(applicable_patches[index].version)]_vars

\* the runs started before the run w that returned a new version
ReturnedBefore(w) ==
  {u \in 1..(w - 1) : workers[u].result # None /\ unwrap(workers[u].result).ok}

\* C23: every run the host starts has as its installed version the version
\* the latest successful run before it returned; no run is started from the
\* version an earlier run has already replaced
C23_RunsStartFromLatestVersion ==
  \A w \in 1..Len(workers) :
     ReturnedBefore(w) # {} =>
       LET u == CHOOSE x \in ReturnedBefore(w) :
                   \A y \in ReturnedBefore(w) : y <= x
       IN  workers[w].config_clone.version
             = Some(unwrap(workers[u].result).val)

\* the version the configuration file holds
StoredVersion(file) == VersionParse(unwrap(unwrap(file).version)).val

\* a worker that has ended wrote the file with the version its run returned
WorkerWroteNewVersion ==
  \E w \in 1..Len(workers) :
     /\ workers[w].pc = "done"
     /\ workers[w].result # None
     /\ unwrap(workers[w].result).ok
     /\ config_file = Some(updated_config(workers[w]))

\* C24: once a worker has written the configuration file with the new
\* version behind a successful run, no later write of the host, the write
\* at shutdown among them, puts an older version in its place
C24_StoredVersionNotReplacedByOlder ==
  [][WorkerWroteNewVersion =>
       ~Greater(StoredVersion(config_file), StoredVersion(config_file'))]_vars

\* the worker w is past the point where update() has returned or the
\* Updater could not be built
BeforeOutcome(position) == position \in {"spawned", "updating"}

\* C25: whenever the host has set is_updating, the flag is reset in the
\* end, whatever the outcome of the worker: the Updater could not be built,
\* update() returned a version, NoUpdatesAvailable or any other error; the
\* step in which a worker learns the outcome is the one that resets it
C25_FlagEventuallyReset ==
  /\ [][\A w \in 1..Len(workers) :
          /\ BeforeOutcome(workers[w].pc)
          /\ ~BeforeOutcome(workers'[w].pc)
          /\ ~exited'
          => ~is_updating']_vars
  /\ [](is_updating => <>(~is_updating \/ exited))

\* the first worker could not build its Updater and the second one's run
\* returned a version; the flag was set twice and is reset
C25_Witness ==
  /\ Len(workers) = 2
  /\ workers[1].pc = "done"
  /\ workers[1].result = None
  /\ workers[2].result # None
  /\ unwrap(workers[2].result).ok
  /\ ~is_updating
  /\ ~exited

\* the step is the UI thread applying the result of a run to its
\* configuration
TakeStep == config_update # None /\ config_update' = None

\* C26: what the user changed in the UI while a run was in flight is still
\* in the configuration of the host after the result of the run has been
\* applied to it; applying the result changes the version alone
C26_TakeChangesVersionOnly ==
  [][TakeStep =>
       [ui_config' EXCEPT !.version = ui_config.version] = ui_config]_vars

====
